---- MODULE Spec2Model ----
(***************************************************************************)
(* Model of asteroids/fuzzy_asteroids.py: the controller-evaluation        *)
(* harness FuzzyAsteroidGame, its headless variant TrainerEnvironment and  *)
(* the entry point evaluate_controller.  The engine (asteroids.game) and   *)
(* the actuator (asteroids.fuzzy_controller.SpaceShip) are modelled from   *)
(* their documented contracts.                                             *)
(***************************************************************************)
EXTENDS Integers, Sequences, FiniteSets, TLC

(* ---------------------------------------------------------------------- *)
(* Bounds of the model                                                     *)
(* ---------------------------------------------------------------------- *)
MaxFrames == 2        \* frames simulated before the run is cut off
MaxFire == 2          \* most fire requests a controller asserts in one call
ReqOver == 1          \* how far outside the allowed range a request may lie
MaxBullets == 1       \* bullets the engine keeps alive at once
MaxTime == 4          \* latest timestamp perf_counter returns, in seconds

(* ---------------------------------------------------------------------- *)
(* Engine-defined actuator ranges (SpaceShip)                              *)
(* ---------------------------------------------------------------------- *)
TurnRateMax == 1
ThrustMax == 2

TurnRateRange == (0 - TurnRateMax)..TurnRateMax
ThrustRange == (0 - ThrustMax)..ThrustMax

(* ---------------------------------------------------------------------- *)
(* Python values                                                           *)
(* ---------------------------------------------------------------------- *)
\* A dict is a function whose DOMAIN is its key set.
EmptyDict == [k \in {} |-> "0"]

DictUpdate(d, u) ==
    [k \in (DOMAIN d) \cup (DOMAIN u) |-> IF k \in DOMAIN u THEN u[k] ELSE d[k]]

DictDelete(d, key) == [k \in (DOMAIN d) \ {key} |-> d[k]]

\* bool() of a settings value
Truthy(v) == v \in {"True", "1"}

\* An optional settings argument: given = FALSE is None.
NoSettings == [given |-> FALSE, dict |-> EmptyDict]
SomeSettings(d) == [given |-> TRUE, dict |-> d]

\* bool() of the settings argument: None and {} are falsy.
SettingsTruthy(s) == s.given /\ DOMAIN s.dict # {}

\* The controller objects a caller can pass.
Controllers == {"None", "Falsy", "NoActions", "Valid"}
ControllerTruthy(c) == c \notin {"None", "Falsy"}
HasActions(c) == c \in {"Falsy", "Valid"}

\* Settings records callers pass: each forced key at the value opposite to
\* the one training forces, plus one key the harness does not know.
OppositeSettings ==
    [sound_on |-> "True", graphics_on |-> "True", real_time_multiplier |-> "1",
     prints |-> "False", allow_key_presses |-> "True", lives |-> "3"]

SettingsInputs ==
    {NoSettings, SomeSettings(EmptyDict), SomeSettings(OppositeSettings),
     SomeSettings([allow_key_presses |-> "False", lives |-> "3"])}

\* Scenarios: the asteroids a run starts with.
Scenarios == {<<>>, <<"a1", "a2">>}

MapSize == <<8, 6>>

Keys == {"LEFT", "SPACE"}

(* ---------------------------------------------------------------------- *)
(* The actuator handed to the controller (SpaceShip)                       *)
(* ---------------------------------------------------------------------- *)
Clamp(v, lo, hi) == IF v < lo THEN lo ELSE IF v > hi THEN hi ELSE v

\* SpaceShip(self.player_sprite)
SpaceShip == [turn_rate |-> 0, thrust |-> 0, fire_bullet |-> FALSE]

SetTurnRate(ship, v) ==
    [ship EXCEPT !.turn_rate = Clamp(v, 0 - TurnRateMax, TurnRateMax)]

SetThrust(ship, v) ==
    [ship EXCEPT !.thrust = Clamp(v, 0 - ThrustMax, ThrustMax)]

RequestFire(ship) == [ship EXCEPT !.fire_bullet = TRUE]

RECURSIVE RequestFireTimes(_, _)
RequestFireTimes(ship, n) ==
    IF n = 0 THEN ship ELSE RequestFireTimes(RequestFire(ship), n - 1)

(* ---------------------------------------------------------------------- *)
(* State                                                                   *)
(* ---------------------------------------------------------------------- *)
VARIABLES
    pc,                  \* "new", "running", "config_error", "aborted", "done"
    cls,                 \* class of the game object
    controller,          \* self.controller
    given,               \* the settings argument as the caller passed it
    caller_settings,     \* the caller's settings object after construction
    settings,            \* the settings handed to AsteroidGame.__init__
    engine_constructed,  \* AsteroidGame.__init__ has run
    time_elapsed,        \* self.time_elapsed
    active_key_presses,  \* self.active_key_presses
    key_handled,         \* a key handler has been called on the game
    frame_count,         \* self.score.frame_count
    asteroid_list,       \* self.asteroid_list
    bullet_list,         \* self.bullet_list
    turn_rate,           \* self.player_sprite.turn_rate
    thrust,              \* self.player_sprite.thrust
    snapshots_built,     \* number of evaluations of the data property
    actions_calls,       \* number of calls of controller.actions
    obs,                 \* what the last on_update call did
    timer                \* the _timer_interface block: where it is, its timestamps

vars == <<pc, cls, controller, given, caller_settings, settings, engine_constructed,
          time_elapsed, active_key_presses, key_handled, frame_count, asteroid_list,
          bullet_list, turn_rate, thrust, snapshots_built, actions_calls, obs, timer>>

\* The record of a frame that has not run.
NoFrame ==
    [ran |-> FALSE, keys |-> {}, events |-> <<>>, raised |-> FALSE,
     ctrl_raised |-> FALSE, after_key |-> FALSE, tampered_before |-> FALSE,
     fired_before |-> FALSE, ship |-> SpaceShip,
     req_turn |-> <<>>, req_thrust |-> <<>>, req_fire |-> 0,
     snapshot |-> EmptyDict, view |-> EmptyDict,
     asteroids_before |-> <<>>, bullets_before |-> <<>>, frame_before |-> 0,
     asteroids_after_call |-> <<>>, bullets_after_call |-> <<>>,
     frame_after_call |-> 0]

\* No block is inside _timer_interface.
IdleTimer == [phase |-> "idle", t0 |-> 0, t1 |-> 0, outcome |-> "none"]

Init ==
    /\ timer = IdleTimer
    /\ pc = "new"
    /\ cls = "none"
    /\ controller = "None"
    /\ given = NoSettings
    /\ caller_settings = NoSettings
    /\ settings = EmptyDict
    /\ engine_constructed = FALSE
    /\ time_elapsed = 0
    /\ active_key_presses = {}
    /\ key_handled = FALSE
    /\ frame_count = 0
    /\ asteroid_list = <<>>
    /\ bullet_list = <<>>
    /\ turn_rate = 0
    /\ thrust = 0
    /\ snapshots_built = 0
    /\ actions_calls = 0
    /\ obs = NoFrame

(* ---------------------------------------------------------------------- *)
(* Sprites of the engine                                                   *)
(* ---------------------------------------------------------------------- *)
Asteroid(s) == [kind |-> "asteroid", state |-> s]
Bullet(s) == [kind |-> "bullet", state |-> s]

\* tuple(sprite.state for sprite in sprites)
SpriteStates(sprites) == [i \in 1..Len(sprites) |-> sprites[i].state]

(* ---------------------------------------------------------------------- *)
(* Construction                                                            *)
(* ---------------------------------------------------------------------- *)
\* settings = settings if settings else {}
SettingsOrEmpty(s) == IF SettingsTruthy(s) THEN s.dict ELSE EmptyDict

\* The check without its hasattr() branch.
ControllerCheckNoHasattr(c) ==
    IF ~ControllerTruthy(c) THEN "ValueError" ELSE "ok"

\* The controller check of FuzzyAsteroidGame.__init__.
ControllerCheck(c) ==
    IF ~ControllerTruthy(c) THEN "ValueError"
    ELSE IF ~HasActions(c) THEN "TypeError"
    ELSE "ok"

\* AsteroidGame.__init__(settings, scenario)
AsteroidGameInit(s, scenario) ==
    /\ settings' = s
    /\ engine_constructed' = TRUE
    /\ active_key_presses' = {}
    /\ frame_count' = 0
    /\ asteroid_list' = [i \in 1..Len(scenario) |-> Asteroid(scenario[i])]
    /\ bullet_list' = <<>>
    /\ turn_rate' = 0
    /\ thrust' = 0

\* FuzzyAsteroidGame.__init__(controller, settings, scenario)
FuzzyAsteroidGameInit(c, s, scenario) ==
    /\ controller' = c
    /\ IF ControllerCheck(c) = "ok"
       THEN /\ AsteroidGameInit(SettingsOrEmpty(s), scenario)
            /\ time_elapsed' = 0
            /\ pc' = "running"
       ELSE /\ pc' = "config_error"
            /\ UNCHANGED <<settings, engine_constructed, active_key_presses,
                           frame_count, asteroid_list, bullet_list, turn_rate,
                           thrust, time_elapsed>>

\* The overrides without the key-press switch.
TrainingOverridesKeysLeft ==
    [sound_on |-> "False", graphics_on |-> "False", real_time_multiplier |-> "0",
     prints |-> "True"]

\* The settings TrainerEnvironment.__init__ writes over the caller's.
TrainingOverrides ==
    [sound_on |-> "False", graphics_on |-> "False", real_time_multiplier |-> "0",
     prints |-> "True", allow_key_presses |-> "False"]

\* evaluate_controller(controller, settings, scenario): construction.
EvaluateController(c, s, scenario) ==
    /\ pc = "new"
    /\ cls' = "FuzzyAsteroidGame"
    /\ given' = s
    /\ caller_settings' = s
    /\ FuzzyAsteroidGameInit(c, s, scenario)
    /\ UNCHANGED <<key_handled, snapshots_built, actions_calls, obs, timer>>

\* TrainerEnvironment(controller, settings, scenario)
NewTrainerEnvironment(c, s, scenario) ==
    /\ pc = "new"
    /\ cls' = "TrainerEnvironment"
    /\ given' = s
    /\ LET forced == DictUpdate(SettingsOrEmpty(s), TrainingOverrides)
       IN  \* update() writes into the caller's dict unless a new one was made
           /\ caller_settings' = IF SettingsTruthy(s) THEN SomeSettings(forced) ELSE s
           /\ FuzzyAsteroidGameInit(c, SomeSettings(forced), scenario)
    /\ UNCHANGED <<key_handled, snapshots_built, actions_calls, obs, timer>>

(* ---------------------------------------------------------------------- *)
(* The controller: what one call of actions(ship, data) does               *)
(* ---------------------------------------------------------------------- *)
\* A request is <<>> (the controller leaves the value alone) or <<v>>.
TurnRequests ==
    {<<>>} \cup {<<v>> : v \in (0 - TurnRateMax - ReqOver)..(TurnRateMax + ReqOver)}
ThrustRequests ==
    {<<>>} \cup {<<v>> : v \in (0 - ThrustMax - ReqOver)..(ThrustMax + ReqOver)}

\* What the controller does to the dict it was given.
Mutations == {"none", "add", "replace", "delete"}

\* A call that leaves the actuator and the dict alone and returns.
IdleCall ==
    [turn |-> <<>>, thrust |-> <<>>, fire |-> 0, raises |-> FALSE, mut |-> "none"]

\* The calls the model lets a controller make: each varies the turn rate, the
\* thrust, or the fire requests and the writes to the dict (returning or
\* raising at the end), plus a call that does everything at once.
ControllerCalls ==
    {[IdleCall EXCEPT !.turn = t] : t \in TurnRequests}
    \cup {[IdleCall EXCEPT !.thrust = t] : t \in ThrustRequests}
    \cup {[IdleCall EXCEPT !.fire = n, !.raises = r] : n \in 0..MaxFire, r \in BOOLEAN}
    \cup {[IdleCall EXCEPT !.mut = m, !.raises = r] : m \in Mutations, r \in BOOLEAN}
    \cup {[turn |-> <<TurnRateMax + ReqOver>>, thrust |-> <<0 - ThrustMax - ReqOver>>,
            fire |-> MaxFire, raises |-> r, mut |-> "add"] : r \in BOOLEAN}

\* The actuator after the controller's calls on it.
Actions(ship, c) ==
    LET s1 == IF c.turn = <<>> THEN ship ELSE SetTurnRate(ship, c.turn[1])
        s2 == IF c.thrust = <<>> THEN s1 ELSE SetThrust(s1, c.thrust[1])
    IN  RequestFireTimes(s2, c.fire)

\* The dict after the controller's writes to it.
Mutate(d, m) ==
    CASE m = "add" -> DictUpdate(d, [hacked |-> <<"x">>])
      [] m = "replace" -> [d EXCEPT !["asteroids"] = <<"fake">>]
      [] m = "delete" -> DictDelete(d, "bullets")
      [] OTHER -> d

(* ---------------------------------------------------------------------- *)
(* One frame.  A frame record st carries the game's fields through the     *)
(* statements of the handler, in the order the code runs them.             *)
(* ---------------------------------------------------------------------- *)
\* AsteroidGame.get_size()
get_size == MapSize

\* The property handing out the game's own attribute dict.
data_live(st) ==
    [obj |-> "live",
     value |-> [frame |-> st.frame_count,
                map_dimensions |-> get_size,
                asteroids |-> SpriteStates(st.asteroid_list),
                bullets |-> SpriteStates(st.asteroid_list)]]

\* FuzzyAsteroidGame.data: obj tells whether the dict is a new object.
data(st) ==
    [obj |-> "new",
     value |-> [frame |-> st.frame_count,
                map_dimensions |-> get_size,
                asteroids |-> SpriteStates(st.asteroid_list),
                bullets |-> SpriteStates(st.asteroid_list)]]

\* A controller's write to a dict that is the game's own object lands in
\* the game; a write to a new dict does not.
WriteThrough(st, obj, m) ==
    IF obj = "new" THEN st
    ELSE CASE m = "replace" -> [st EXCEPT !.asteroid_list = <<Asteroid("fake")>>]
           [] m = "delete" -> [st EXCEPT !.bullet_list = <<>>]
           [] OTHER -> st

\* AsteroidGame.fire_bullet()
fire_bullet(st) ==
    [st EXCEPT !.events = Append(@, "fire_bullet"),
               !.bullet_list = IF Len(@) < MaxBullets THEN Append(@, Bullet("b1")) ELSE @]

\* The turn rate written from the wrong attribute.
AppliedTurnRateFromThrust(ship) == ship.thrust

\* self.player_sprite.turn_rate = ship.turn_rate
AppliedTurnRate(ship) == ship.turn_rate

\* self.player_sprite.thrust = ship.thrust
AppliedThrust(ship) == ship.thrust

\* The actuator of the frame before, handed out again.
ReusedActuator(st) == st.last_ship

\* ship = SpaceShip(self.player_sprite): a new actuator for the call
NewActuator(st) == SpaceShip

\* FuzzyAsteroidGame.call_stored_controller()
call_stored_controller(st, c) ==
    IF ~ControllerTruthy(controller) THEN st
    ELSE IF ~HasActions(controller)
    THEN \* the attribute lookup raises before the arguments are evaluated
         [st EXCEPT !.events = Append(@, "SpaceShip"), !.raised = TRUE]
    ELSE
    LET snap == data(st)
        ship == Actions(NewActuator(st), c)
        called == WriteThrough(
                    [st EXCEPT !.events = @ \o <<"SpaceShip", "data", "actions">>,
                               !.snapshots = @ + 1,
                               !.calls = @ + 1,
                               !.snapshot = snap.value,
                               !.view = Mutate(snap.value, c.mut),
                               !.req_turn = c.turn,
                               !.req_thrust = c.thrust,
                               !.req_fire = c.fire,
                               !.ctrl_raised = c.raises,
                               !.ship = ship],
                    snap.obj, c.mut)
        returned == [called EXCEPT !.asteroids_after_call = called.asteroid_list,
                                   !.bullets_after_call = called.bullet_list,
                                   !.frame_after_call = called.frame_count]
        applied == [returned EXCEPT !.turn_rate = AppliedTurnRate(ship),
                                    !.thrust = AppliedThrust(ship),
                                    !.events = @ \o <<"turn_rate", "thrust">>]
    IN  IF c.raises THEN [returned EXCEPT !.raised = TRUE]
        ELSE IF ship.fire_bullet THEN fire_bullet(applied)
        ELSE applied

\* AsteroidGame.on_update(delta_time): the engine's step.
AsteroidGame_on_update(st, hit) ==
    [st EXCEPT !.events = Append(@, "advance"),
               !.frame_count = @ + 1,
               !.asteroid_list = IF hit /\ st.bullet_list # <<>> /\ @ # <<>>
                                 THEN Tail(@) ELSE @,
               !.bullet_list = IF hit /\ @ # <<>> THEN Tail(@) ELSE @]

\* The handler with the parent's step first.
on_update_parent_first(st, c, hit) ==
    LET s1 == AsteroidGame_on_update(st, hit)
    IN  IF s1.keys = {} THEN call_stored_controller(s1, c) ELSE s1

\* FuzzyAsteroidGame.on_update(delta_time)
on_update(st, c, hit) ==
    LET s1 == IF st.keys = {} THEN call_stored_controller(st, c) ELSE st
    IN  IF s1.raised THEN s1 ELSE AsteroidGame_on_update(s1, hit)

\* The frame record at the start of a frame.
FrameStart ==
    [NoFrame EXCEPT !.ran = TRUE, !.keys = active_key_presses,
                    !.after_key = key_handled,
                    !.tampered_before = obs.tampered_before \/ obs.view # obs.snapshot,
                    !.fired_before =
                        \E i \in DOMAIN obs.events : obs.events[i] = "fire_bullet",
                    !.asteroids_before = asteroid_list,
                    !.bullets_before = bullet_list,
                    !.frame_before = frame_count,
                    !.asteroids_after_call = asteroid_list,
                    !.bullets_after_call = bullet_list,
                    !.frame_after_call = frame_count]
    @@ [asteroid_list |-> asteroid_list, bullet_list |-> bullet_list,
        frame_count |-> frame_count, turn_rate |-> turn_rate, thrust |-> thrust,
        snapshots |-> snapshots_built, calls |-> actions_calls,
        last_ship |-> obs.ship]

\* What of the frame record is kept as the observation of the frame.
Observed(st) == [k \in DOMAIN NoFrame |-> st[k]]

\* A frame of the run: arcade (or run_single_game) calls on_update.  A
\* controller that is not invoked contributes nothing to the frame.
OnUpdate(c, hit) ==
    /\ pc = "running"
    /\ frame_count < MaxFrames
    /\ active_key_presses # {} => c = IdleCall
    /\ hit => (bullet_list # <<>> \/ c.fire > 0)
    /\ \E st \in {on_update(FrameStart, c, hit)} :   \* the frame, run once
           /\ asteroid_list' = st.asteroid_list
           /\ bullet_list' = st.bullet_list
           /\ frame_count' = st.frame_count
           /\ turn_rate' = st.turn_rate
           /\ thrust' = st.thrust
           /\ snapshots_built' = st.snapshots
           /\ actions_calls' = st.calls
           /\ obs' = Observed(st)
           /\ pc' = IF st.raised THEN "aborted" ELSE "running"
    /\ UNCHANGED <<cls, controller, given, caller_settings, settings,
                   engine_constructed, time_elapsed, active_key_presses, key_handled,
                   timer>>

(* ---------------------------------------------------------------------- *)
(* Key handlers                                                            *)
(* ---------------------------------------------------------------------- *)
\* AsteroidGame.on_key_press / on_key_release
KeyPressesAllowed ==
    "allow_key_presses" \in DOMAIN settings => Truthy(settings["allow_key_presses"])

AsteroidGame_on_key_press(keys, k) == IF KeyPressesAllowed THEN keys \cup {k} ELSE keys
AsteroidGame_on_key_release(keys, k) == IF KeyPressesAllowed THEN keys \ {k} ELSE keys

\* The handler left as the parent's, recording the key.
TrainerEnvironment_on_key_press_recording(keys, k) == keys \cup {k}

\* TrainerEnvironment.on_key_press / on_key_release: pass
TrainerEnvironment_on_key_press(keys, k) == keys
TrainerEnvironment_on_key_release(keys, k) == keys

OnKeyPress(k) ==
    /\ pc = "running"
    /\ active_key_presses' =
           IF cls = "TrainerEnvironment"
           THEN TrainerEnvironment_on_key_press(active_key_presses, k)
           ELSE AsteroidGame_on_key_press(active_key_presses, k)
    /\ key_handled' = TRUE
    /\ UNCHANGED <<pc, cls, controller, given, caller_settings, settings,
                   engine_constructed, time_elapsed, frame_count, asteroid_list,
                   bullet_list, turn_rate, thrust, snapshots_built, actions_calls, obs, timer>>

OnKeyRelease(k) ==
    /\ pc = "running"
    /\ active_key_presses' =
           IF cls = "TrainerEnvironment"
           THEN TrainerEnvironment_on_key_release(active_key_presses, k)
           ELSE AsteroidGame_on_key_release(active_key_presses, k)
    /\ key_handled' = TRUE
    /\ UNCHANGED <<pc, cls, controller, given, caller_settings, settings,
                   engine_constructed, time_elapsed, frame_count, asteroid_list,
                   bullet_list, turn_rate, thrust, snapshots_built, actions_calls, obs, timer>>

(* ---------------------------------------------------------------------- *)
(* End of the run                                                          *)
(* ---------------------------------------------------------------------- *)
\* run_single_game() returns the Score once the engine reports game over.
ReturnScore ==
    /\ pc = "running"
    /\ pc' = "done"
    /\ UNCHANGED <<cls, controller, given, caller_settings, settings,
                   engine_constructed, time_elapsed, active_key_presses, key_handled,
                   frame_count, asteroid_list, bullet_list, turn_rate, thrust,
                   snapshots_built, actions_calls, obs, timer>>

Next ==
    \/ \E c \in Controllers, s \in SettingsInputs, sc \in Scenarios :
           EvaluateController(c, s, sc)
    \/ \E c \in Controllers, s \in SettingsInputs, sc \in Scenarios :
           NewTrainerEnvironment(c, s, sc)
    \/ \E c \in ControllerCalls, hit \in BOOLEAN : OnUpdate(c, hit)
    \/ \E k \in Keys : OnKeyPress(k)
    \/ \E k \in Keys : OnKeyRelease(k)
    \/ ReturnScore

Spec == Init /\ [][Next]_vars

(* ---------------------------------------------------------------------- *)
(* The timer wrapper _timer_interface.  No method of the class enters it;  *)
(* TimerSpec runs blocks inside it on a constructed game.  Timestamps are  *)
(* whole seconds, time_elapsed is held in millionths of a second.          *)
(* ---------------------------------------------------------------------- *)
Million == 1000000

\* time.perf_counter()
Times == 0..MaxTime

\* How the wrapped block ends: it returns, raises an Exception, or raises a
\* BaseException that is no Exception.
Outcomes == {"returns", "Exception", "KeyboardInterrupt"}

\* except Exception: what the handler does not catch leaves the wrapper.
Escapes(outcome) == outcome = "KeyboardInterrupt"

\* self.time_elapsed = t1 - t0 / float(1E6), in millionths
TimeElapsed(t0, t1) == t1 * Million - t0

\* A game constructed by FuzzyAsteroidGame(controller) with a valid
\* controller, no settings and an empty scenario.
TimerInit ==
    /\ pc = "running"
    /\ cls = "FuzzyAsteroidGame"
    /\ controller = "Valid"
    /\ given = NoSettings
    /\ caller_settings = NoSettings
    /\ settings = EmptyDict
    /\ engine_constructed = TRUE
    /\ time_elapsed = 0
    /\ active_key_presses = {}
    /\ key_handled = FALSE
    /\ frame_count = 0
    /\ asteroid_list = <<>>
    /\ bullet_list = <<>>
    /\ turn_rate = 0
    /\ thrust = 0
    /\ snapshots_built = 0
    /\ actions_calls = 0
    /\ obs = NoFrame
    /\ timer = IdleTimer

\* with self._timer_interface(): up to the yield
TimerEnter(t) ==
    /\ pc = "running"
    /\ timer.phase = "idle"
    /\ timer' = [phase |-> "in_block", t0 |-> t, t1 |-> t, outcome |-> "none"]
    /\ UNCHANGED <<pc, cls, controller, given, caller_settings, settings,
                   engine_constructed, time_elapsed, active_key_presses, key_handled,
                   frame_count, asteroid_list, bullet_list, turn_rate, thrust,
                   snapshots_built, actions_calls, obs>>

\* The block ends: the except and finally clauses run.
TimerExit(outcome, t) ==
    /\ timer.phase = "in_block"
    /\ t >= timer.t0
    /\ time_elapsed' = TimeElapsed(timer.t0, t)
    /\ timer' = [phase |-> IF Escapes(outcome) THEN "escaped" ELSE "idle",
                 t0 |-> timer.t0, t1 |-> t, outcome |-> outcome]
    /\ UNCHANGED <<pc, cls, controller, given, caller_settings, settings,
                   engine_constructed, active_key_presses, key_handled,
                   frame_count, asteroid_list, bullet_list, turn_rate, thrust,
                   snapshots_built, actions_calls, obs>>

TimerNext ==
    \/ \E t \in Times : TimerEnter(t)
    \/ \E o \in Outcomes, t \in Times : TimerExit(o, t)

TimerSpec == TimerInit /\ [][TimerNext]_vars

(* ---------------------------------------------------------------------- *)
(* Properties                                                              *)
(* ---------------------------------------------------------------------- *)
\* How often event e happened in the last frame.
Count(e) == Cardinality({i \in DOMAIN obs.events : obs.events[i] = e})

Happened(e) == \E i \in DOMAIN obs.events : obs.events[i] = e

InvalidController(c) == c \in {"None", "Falsy", "NoActions"}

\* C1: fault containment.  In every frame in which the controller's
\* actions() raises, the exception does not leave on_update, the frame still
\* advances the simulation once and the run is not aborted.
FaultContainment ==
    obs.ctrl_raised => (~obs.raised /\ Count("advance") = 1 /\ pc # "aborted")

\* C2: configuration error before any frame.  Once construction was
\* attempted with a controller that is absent, falsy or without actions,
\* construction has failed, the engine was never constructed, no frame ran,
\* no snapshot was built and the controller was never invoked.
ConfigErrorBeforeAnyFrame ==
    (pc # "new" /\ InvalidController(controller)) =>
        /\ pc = "config_error"
        /\ ~engine_constructed
        /\ ~obs.ran
        /\ frame_count = 0
        /\ snapshots_built = 0
        /\ actions_calls = 0

\* C2 witness: evaluate_controller refused a controller without actions.
ConfigErrorWitness ==
    /\ pc = "config_error"
    /\ controller = "NoActions"
    /\ cls = "FuzzyAsteroidGame"

\* C3: human/controller mutual exclusion.  A frame with an active key press
\* does not invoke the controller and writes no command to the ship; a frame
\* with none invokes the controller exactly once; either way the simulation
\* is advanced exactly once.
MutualExclusion ==
    obs.ran =>
        /\ obs.keys # {} =>
               /\ Count("actions") = 0
               /\ Count("turn_rate") = 0
               /\ Count("thrust") = 0
               /\ Count("fire_bullet") = 0
        /\ obs.keys = {} => Count("actions") = 1
        /\ Count("advance") = 1

\* The value the allowed range lo..hi leaves of a request v.
InRange(v, lo, hi, out) ==
    /\ out \in lo..hi
    /\ v \in lo..hi => out = v
    /\ v < lo => out = lo
    /\ v > hi => out = hi

\* C4: clamping law.  In every frame whose controller call returned, the
\* turn rate and thrust written to the player ship lie in the allowed
\* ranges: a request below the range gives its lower bound, one above it
\* its upper bound, one inside it is written unchanged.
ClampingLaw ==
    (obs.ran /\ Happened("turn_rate") /\ Happened("thrust")) =>
        /\ turn_rate \in TurnRateRange
        /\ thrust \in ThrustRange
        /\ obs.req_turn # <<>> =>
               InRange(obs.req_turn[1], 0 - TurnRateMax, TurnRateMax, turn_rate)
        /\ obs.req_thrust # <<>> =>
               InRange(obs.req_thrust[1], 0 - ThrustMax, ThrustMax, thrust)

\* C4 witness: requests beyond both ranges were written as the bounds.
ClampingWitness ==
    /\ obs.ran
    /\ Happened("turn_rate")
    /\ obs.req_turn = <<TurnRateMax + ReqOver>>
    /\ turn_rate = TurnRateMax
    /\ obs.req_thrust = <<0 - ThrustMax - ReqOver>>
    /\ thrust = 0 - ThrustMax

\* C5: fire idempotence.  In every frame in which the controller is invoked,
\* fire_bullet() is called exactly once if the controller asserted the fire
\* request at least once during the call, and not at all otherwise.
FireIdempotence ==
    (obs.ran /\ Happened("actions")) =>
        Count("fire_bullet") = IF obs.req_fire >= 1 THEN 1 ELSE 0

\* C6: snapshot content.  In every state of a running game the data
\* property gives the frame counter, the map size, the states of the live
\* asteroids in order and the states of the live bullets in order.
SnapshotContent ==
    pc = "running" =>
        data(FrameStart).value =
            [frame |-> frame_count,
             map_dimensions |-> MapSize,
             asteroids |-> SpriteStates(asteroid_list),
             bullets |-> SpriteStates(bullet_list)]

SnapshotKeys == {"frame", "map_dimensions", "asteroids", "bullets"}

\* C7: the snapshot is a copy.  Whatever the controller adds to, replaces in
\* or deletes from the dict it receives, the simulation state when the call
\* ends is the state the snapshot was built from, and the snapshot a frame
\* builds holds the game's own values under the four keys and nothing a
\* controller wrote into an earlier one.
SnapshotIsCopy ==
    (obs.ran /\ Happened("data")) =>
        /\ obs.asteroids_after_call = obs.asteroids_before
        /\ obs.bullets_after_call = obs.bullets_before
        /\ obs.frame_after_call = obs.frame_before
        /\ DOMAIN obs.snapshot = SnapshotKeys
        /\ obs.snapshot["frame"] = obs.frame_before
        /\ obs.snapshot["map_dimensions"] = MapSize
        /\ obs.snapshot["asteroids"] = SpriteStates(obs.asteroids_before)
        /\ \A i \in DOMAIN obs.snapshot["asteroids"] :
               obs.snapshot["asteroids"][i] # "fake"

\* C7 witness: a controller changed the dict of an earlier frame, and this
\* frame's controller changed its own dict after a new one was built.
SnapshotCopyWitness ==
    /\ obs.ran
    /\ Happened("data")
    /\ obs.tampered_before
    /\ obs.view # obs.snapshot
    /\ obs.asteroids_before # <<>>

ForcedKeys == {"sound_on", "graphics_on", "real_time_multiplier", "allow_key_presses"}

HeadlessForced ==
    /\ ForcedKeys \subseteq DOMAIN settings
    /\ settings["sound_on"] = "False"
    /\ settings["graphics_on"] = "False"
    /\ settings["real_time_multiplier"] = "0"
    /\ settings["allow_key_presses"] = "False"

\* C8 as stated: the settings a TrainerEnvironment hands to the base game have
\* sound_on = False, graphics_on = False, real_time_multiplier = 0 and
\* allow_key_presses = False, and every other key the caller supplied keeps
\* the caller's value.
HeadlessOthersUnchanged ==
    (cls = "TrainerEnvironment" /\ engine_constructed) =>
        /\ HeadlessForced
        /\ \A k \in (DOMAIN given.dict) \ ForcedKeys :
               k \in DOMAIN settings /\ settings[k] = given.dict[k]

\* C8 amended: the settings a TrainerEnvironment hands to the base game have
\* sound_on = False, graphics_on = False, real_time_multiplier = 0,
\* allow_key_presses = False and prints = True; every other key the caller
\* supplied keeps the caller's value, and no further key is added.
HeadlessSettingsForced ==
    (cls = "TrainerEnvironment" /\ engine_constructed) =>
        /\ HeadlessForced
        /\ "prints" \in DOMAIN settings
        /\ settings["prints"] = "True"
        /\ DOMAIN settings = (DOMAIN given.dict) \cup ForcedKeys \cup {"prints"}
        /\ \A k \in (DOMAIN given.dict) \ (ForcedKeys \cup {"prints"}) :
               settings[k] = given.dict[k]

\* C8 witness: a trainer was built from settings with every forced key at
\* the opposite value and a key of the caller's own.
HeadlessWitness ==
    /\ cls = "TrainerEnvironment"
    /\ engine_constructed
    /\ given = SomeSettings(OppositeSettings)
    /\ settings["lives"] = "3"

\* C9: headless key handlers are inert.  In a TrainerEnvironment no key
\* press is ever active, whatever key events arrive, and every frame invokes
\* the controller exactly once.
HeadlessKeysInert ==
    cls = "TrainerEnvironment" =>
        /\ active_key_presses = {}
        /\ obs.ran => (obs.keys = {} /\ Count("actions") = 1)

\* C9 witness: a frame of a trainer ran after a key event and invoked the
\* controller.
HeadlessKeysWitness ==
    /\ cls = "TrainerEnvironment"
    /\ obs.ran
    /\ obs.after_key
    /\ Count("actions") = 1

\* The place of an event in a frame.
Rank(e) ==
    CASE e = "SpaceShip" -> 0
      [] e = "data" -> 1
      [] e = "actions" -> 2
      [] e = "turn_rate" -> 3
      [] e = "thrust" -> 4
      [] e = "fire_bullet" -> 5
      [] e = "advance" -> 6

\* C10: per-frame ordering.  In every frame in which the controller runs the
\* events happen in the order snapshot, controller call, writes of turn rate,
\* thrust and fire, advance: the snapshot is built before the call, and when
\* the simulation is advanced the frame's outputs have been written.
FrameOrder ==
    (obs.ran /\ Happened("actions")) =>
        /\ \A i, j \in DOMAIN obs.events :
               i < j => Rank(obs.events[i]) < Rank(obs.events[j])
        /\ Happened("data")
        /\ Happened("advance") =>
               /\ Happened("turn_rate")
               /\ Happened("thrust")
               /\ obs.req_fire >= 1 => Happened("fire_bullet")

\* C10 witness: a frame ran all its steps, the fire among them.
FrameOrderWitness ==
    obs.events = <<"SpaceShip", "data", "actions", "turn_rate", "thrust",
                   "fire_bullet", "advance">>

\* C11: no stale-command leakage.  The commands a frame applies come from
\* that frame's controller call alone: a turn rate or thrust the call did not
\* set is written as the new actuator's 0, one it set is written as that
\* request within the range, and a call that did not assert the fire request
\* fires no bullet, whatever earlier frames asked for.
NoStaleCommands ==
    (obs.ran /\ Happened("actions")) =>
        /\ obs.req_fire = 0 => Count("fire_bullet") = 0
        /\ obs.ship.fire_bullet = (obs.req_fire >= 1)
        /\ Happened("turn_rate") =>
               /\ obs.req_turn = <<>> => turn_rate = 0
               /\ obs.req_thrust = <<>> => thrust = 0
               /\ obs.req_turn # <<>> =>
                      InRange(obs.req_turn[1], 0 - TurnRateMax, TurnRateMax, turn_rate)
               /\ obs.req_thrust # <<>> =>
                      InRange(obs.req_thrust[1], 0 - ThrustMax, ThrustMax, thrust)

\* C11 witness: the frame before fired a bullet for the controller; this
\* frame's call returned without asserting the fire request and no bullet
\* was fired.
NoStaleCommandsWitness ==
    /\ obs.ran
    /\ obs.fired_before
    /\ Happened("turn_rate")
    /\ obs.req_fire = 0
    /\ Count("fire_bullet") = 0

\* C12: settings are not mutated.  Once a FuzzyAsteroidGame or a
\* TrainerEnvironment has been constructed (or construction has failed), the
\* caller's settings record has the keys and values it was passed with.
SettingsNotMutated ==
    pc # "new" => caller_settings = given

\* C13: timer wrapper.  After a block has run inside _timer_interface from
\* timestamp t0 to timestamp t1, whether it returned or raised, no exception
\* has left the wrapper, time_elapsed is the duration t1 - t0, and nothing
\* but time_elapsed has changed.
TimerWrapper ==
    timer.outcome # "none" =>
        /\ timer.phase # "escaped"
        /\ time_elapsed = (timer.t1 - timer.t0) * Million
        /\ <<pc, cls, controller, given, caller_settings, settings,
             engine_constructed, active_key_presses, key_handled, frame_count,
             asteroid_list, bullet_list, turn_rate, thrust, snapshots_built,
             actions_calls, obs>>
           = <<"running", "FuzzyAsteroidGame", "Valid", NoSettings, NoSettings,
               EmptyDict, TRUE, {}, FALSE, 0, <<>>, <<>>, 0, 0, 0, 0, NoFrame>>

====
